---------------------------- MODULE Spec2Model ----------------------------
(***************************************************************************)
(* Model of src/frontend/generate_sequence.py: generate_sequence, the      *)
(* constrained quadratic sequence generator.                               *)
(*                                                                         *)
(* A number is a rational <<p, q>> in lowest terms with q > 0.  Python's   *)
(* float arithmetic rounds the exact result of every operation to the      *)
(* nearest representable value; the model does the same on a binary        *)
(* floating-point format with MantissaBits significant bits (round to      *)
(* nearest, ties to even, unbounded exponent).  Python's None is the empty *)
(* tuple, and a present optional argument x is <<x>>.  A Python list is a  *)
(* TLA+ sequence: sequence[k] of the code is sequence[k + 1] here.         *)
(*                                                                         *)
(* The second part models the MCP tools of src/mcp-server/tools: each tool  *)
(* sends its request (compare_strategies one per strategy) and turns the   *)
(* answer into its result or its error; the backend is outside the program *)
(* and answers with any response.  Amounts of the tools (percentages,      *)
(* returns, betas, scores) are exact rationals.                            *)
(*                                                                         *)
(* The third part models the __main__ block of generate_sequence.py, the   *)
(* module run as a script.                                                 *)
(***************************************************************************)
EXTENDS Integers, Sequences, FiniteSets, TLC

\* ------------------------------------------------------------- bounds
\* Significant bits of the model's floating-point format.
MantissaBits == 5
\* Largest n and ith a caller passes.
MaxN == 5
\* Callers (threads) that invoke the function.
NumCallers == 2
\* Longest list of stocks a portfolio request carries.
MaxStocks == 3
\* Longest list of results the backend returns for a batch.
MaxResults == 6
\* The longest list of strategies compare_strategies is given (the code
\* accepts 2 to 5).
MaxStrategies == 3

VARIABLES
    arith,   \* "float": every operation rounds (CPython); "real": exact
    frame,   \* frame[c]: the activation of generate_sequence caller c runs
    prior,   \* a record of one earlier, completed invocation, or None
    tool,    \* the MCP tool invocation in progress
    posted,  \* the requests that invocation has issued to the backend
    script   \* the __main__ block of generate_sequence.py, when it runs

vars == <<arith, frame, prior, tool, posted, script>>

Callers == 1 .. NumCallers

None == <<>>
Some(x) == <<x>>
Val(o) == o[1]

\* ---------------------------------------------------------- rationals
Abs(x) == IF x < 0 THEN -x ELSE x

RECURSIVE Gcd(_, _)
Gcd(x, y) == IF y = 0 THEN x ELSE Gcd(y, x % y)

\* p/q (q # 0) in lowest terms with a positive denominator, as a function of
\* the two integers.
Normalised[p \in Int, q \in Int] ==
    LET g == Gcd(Abs(p), Abs(q))
        s == IF q < 0 THEN -1 ELSE 1
    IN  <<(s * p) \div g, (s * q) \div g>>

Rat(p, q) == Normalised[p, q]

FromInt(k) == <<k, 1>>
Zero == FromInt(0)

QAdd(x, y) == Rat(x[1] * y[2] + y[1] * x[2], x[2] * y[2])
QSub(x, y) == Rat(x[1] * y[2] - y[1] * x[2], x[2] * y[2])
QMul(x, y) == Rat(x[1] * y[1], x[2] * y[2])
QDiv(x, y) == Rat(x[1] * y[2], x[2] * y[1])
QLess(x, y) == x[1] * y[2] < y[1] * x[2]

\* ------------------------------------------------------ float rounding
\* num/den rounded to an integer, ties to the even one (num >= 0, den > 0).
RoundHalfEven(num, den) ==
    LET fl == num \div den
        r2 == 2 * (num % den)
    IN  IF r2 > den \/ (r2 = den /\ fl % 2 = 1) THEN fl + 1 ELSE fl

\* x * p / q, the scaling of x by a power of two.
Scaled[x \in Int \X Int, p \in Int, q \in Int] == Rat(x[1] * p, x[2] * q)

\* The representable value nearest to num/den > 0: the quotient is scaled
\* by a power of two into [2^(MantissaBits-1), 2^MantissaBits), rounded to
\* an integer mantissa, and scaled back.
RoundedMagnitude[num \in Nat, den \in Nat] ==
    IF num < (2 ^ (MantissaBits - 1)) * den
    THEN Scaled[RoundedMagnitude[2 * num, den], 1, 2]
    ELSE IF num >= (2 ^ MantissaBits) * den
    THEN Scaled[RoundedMagnitude[num, 2 * den], 2, 1]
    ELSE FromInt(RoundHalfEven(num, den))

RoundMagnitude(num, den) == RoundedMagnitude[num, den]

RoundToFloat(x) ==
    IF x[1] = 0 THEN Zero
    ELSE IF x[1] < 0 THEN QSub(Zero, RoundMagnitude(-x[1], x[2]))
    ELSE RoundMagnitude(x[1], x[2])

\* The result of one arithmetic operation whose exact value is x.
Rounded[x \in Int \X Int] == IF arith = "float" THEN RoundToFloat(x) ELSE x

Rnd(x) == Rounded[x]

Add(x, y) == Rnd(QAdd(x, y))
Sub(x, y) == Rnd(QSub(x, y))
Mul(x, y) == Rnd(QMul(x, y))
Div(x, y) == Rnd(QDiv(x, y))

\* ------------------------------------------- generate_sequence, by parts
\* Faulty variant of InvalidLength: a length of 2 passes the check.
InvalidLengthBelowTwo(n) == n < 2

\* if n < 3: raise ValueError("Sequence length must be at least 3")
InvalidLength(n) == n < 3

\* Faulty variant of NewSequence: the list outlives the call (a module-level list,
\* a mutable default argument), so a call starts from what the remembered
\* earlier call returned.
SequenceOfEarlierCall ==
    IF prior = None THEN <<>> ELSE Val(prior).outcome.values

\* sequence = []
NewSequence == <<>>

\* Faulty variant of LoopContinues: the loop runs once more, for i = n.
LoopContinuesThroughN(n, i) == i <= n

\* for i in range(n): the loop body runs while i is below n.
LoopContinues(n, i) == i < n

\* Faulty variant of NaturalValue: the position is not squared.
NaturalValueLinear(n, start, end, i) ==
    LET t == Div(FromInt(i), FromInt(n - 1))
    IN  Add(start, Mul(Sub(end, start), t))

\* Faulty variant of NaturalValue: the position is i / n.
NaturalValueOverN(n, start, end, i) ==
    LET t == Div(FromInt(i), FromInt(n))
    IN  Add(start, Mul(Sub(end, start), Mul(t, t)))

\* t = i / (n - 1); value = start + (end - start) * (t ** 2)
NaturalValue(n, start, end, i) ==
    LET t == Div(FromInt(i), FromInt(n - 1))
    IN  Add(start, Mul(Sub(end, start), Mul(t, t)))

\* Faulty variant of Denominator: (n-1) squared.
DenominatorSquared(n) == (n - 1) * (n - 1)

\* denominator = (n-1) * (n-2)
Denominator(n) == (n - 1) * (n - 2)

\* a = 0 when the denominator is 0, else
\* a = (end - start - firstDelta * (n-1)) / denominator
PinnedA(n, start, firstDelta, end) ==
    IF Denominator(n) = 0
    THEN Zero
    ELSE Div(Sub(Sub(end, start), Mul(firstDelta, FromInt(n - 1))),
             FromInt(Denominator(n)))

\* b = firstDelta when the denominator is 0, else b = firstDelta - a
PinnedB(n, start, firstDelta, end) ==
    IF Denominator(n) = 0
    THEN firstDelta
    ELSE Sub(firstDelta, PinnedA(n, start, firstDelta, end))

\* Faulty variant of PinnedValue: the linear term b * i is missing.
PinnedValueNoLinear(a, b, c, i) ==
    Add(Mul(a, FromInt(i * i)), c)

\* value = a * (i ** 2) + b * i + c
PinnedValue(a, b, c, i) ==
    Add(Add(Mul(a, FromInt(i * i)), Mul(b, FromInt(i))), c)

\* sequence[0] = start
AssertFirst(sequence, start) == [sequence EXCEPT ![1] = start]

\* Faulty variant of AssertLast: the end value is not re-asserted.
AssertLastSkipped(sequence, end) == sequence

\* sequence[-1] = end
AssertLast(sequence, end) == [sequence EXCEPT ![Len(sequence)] = end]

\* Faulty variant of AssertSecond: the second value is not re-asserted.
AssertSecondSkipped(sequence, n, start, firstDelta) == sequence

\* if firstDelta is not None and n > 1: sequence[1] = start + firstDelta
AssertSecond(sequence, n, start, firstDelta) ==
    IF firstDelta # None /\ n > 1
    THEN [sequence EXCEPT ![2] = Add(start, Val(firstDelta))]
    ELSE sequence

\* The three boundary assignments, in the code's order.
Reasserted(sequence, n, start, firstDelta, end) ==
    AssertSecond(AssertLast(AssertFirst(sequence, start), end),
                 n, start, firstDelta)

\* Faulty variant of IndexOutOfRange: only the upper bound is checked.
IndexOutOfRangeAbove(n, ith) == ith >= n

\* if ith < 0 or ith >= n: raise ValueError(...)
IndexOutOfRange(n, ith) == ith < 0 \/ ith >= n

\* sequence[k] of a Python list: a negative k counts from the end.
Item(sequence, k) ==
    IF k >= 0 THEN sequence[k + 1] ELSE sequence[Len(sequence) + k + 1]

\* value = sequence[ith]
QueryValue(sequence, ith) == Item(sequence, ith)

\* Faulty variant of QueryDelta: index 0 is not treated apart.
QueryDeltaNoFirstCase(sequence, ith) ==
    Sub(Item(sequence, ith), Item(sequence, ith - 1))

\* delta = 0 when ith == 0, else sequence[ith] - sequence[ith-1]
QueryDelta(sequence, ith) ==
    IF ith = 0
    THEN Zero
    ELSE Sub(Item(sequence, ith), Item(sequence, ith - 1))

\* ------------------------------------------------------------ outcomes
NoOutcome == [kind |-> "none", values |-> <<>>, error |-> "", detail |-> <<>>]

\* return sequence
ReturnSequence(sequence) ==
    [kind |-> "sequence", values |-> sequence, error |-> "", detail |-> <<>>]

\* return (value, delta)
ReturnPair(value, delta) ==
    [kind |-> "pair", values |-> <<value, delta>>, error |-> "", detail |-> <<>>]

\* raise ValueError("Sequence length must be at least 3")
RaiseInvalidLength ==
    [kind |-> "ValueError", values |-> <<>>, error |-> "InvalidLength",
     detail |-> <<>>]

\* raise ValueError(f"Index {ith} is out of bounds for sequence of length {n}")
RaiseIndexOutOfRange(ith, n) ==
    [kind |-> "ValueError", values |-> <<>>, error |-> "IndexOutOfRange",
     detail |-> <<ith, n>>]

\* ------------------------------------------------------------ requests
\* Endpoint values callers pass for start and end (representable floats).
Endpoints == {Zero, Rat(1, 16), FromInt(1), Rat(7, 4)}

\* First steps callers pass for firstDelta.
Deltas == {Rat(-1, 2), Zero, Rat(3, 8), FromInt(1), FromInt(2)}

Lengths == -1 .. MaxN
Indexes == -1 .. MaxN

Requests ==
    [n : Lengths,
     start : Endpoints,
     firstDelta : {None} \cup {Some(d) : d \in Deltas},
     end : Endpoints,
     ith : {None} \cup {Some(k) : k \in Indexes}]

\* The requests of the repeated-invocation specification, where an earlier
\* invocation is remembered and compared with later ones.
RepeatRequests ==
    [n : 2 .. 4,
     start : {Rat(1, 16)},
     firstDelta : {None, Some(Rat(3, 8))},
     end : {FromInt(1), Rat(7, 4)},
     ith : {None} \cup {Some(k) : k \in 0 .. 4}]

\* The requests of the exact-arithmetic specification: the bounded ones and
\* the worked example n = 7, start = 0, end = 0.7 of natural mode.
RealRequests ==
    Requests \cup
        [n : {7}, start : {Zero}, firstDelta : {None}, end : {Rat(7, 10)},
         ith : {None, Some(3)}]

\* The requests of the specification that runs the program in either
\* arithmetic: spans of several units and a span of one unit in the last
\* place of start (1 and 17/16 are neighbouring floats), in both modes.
ArithRequests ==
    [n : 3 .. MaxN,
     start : {Rat(1, 16), FromInt(1)},
     firstDelta : {None, Some(Rat(3, 8))},
     end : {Rat(17, 16), Rat(7, 4)},
     ith : {None}]

\* The requests of the fair specification: every length and every index
\* of the bounded ranges, in both modes.
FairRequests ==
    [n : Lengths,
     start : {Rat(1, 16)},
     firstDelta : {None, Some(Rat(3, 8))},
     end : {Rat(7, 4)},
     ith : {None} \cup {Some(k) : k \in Indexes}]

\* The requests of the concurrent specification, where calls overlap: a
\* rejected length, both modes, a query and an index out of range.
ConcurrentRequests ==
    LET r(n, firstDelta, ith) ==
            [n |-> n, start |-> Rat(1, 16), firstDelta |-> firstDelta,
             end |-> Rat(7, 4), ith |-> ith]
    IN  {r(2, None, None), r(3, None, None), r(3, Some(Rat(3, 8)), None),
         r(3, Some(Rat(3, 8)), Some(1)), r(3, None, Some(3))}

\* ------------------------------------------- generate_sequence, as a whole
\* The elements the loop of the chosen mode appends, in order.
FittedSequence(r) ==
    IF r.firstDelta = None
    THEN [k \in 1 .. r.n |-> NaturalValue(r.n, r.start, r.end, k - 1)]
    ELSE [k \in 1 .. r.n |->
             PinnedValue(PinnedA(r.n, r.start, Val(r.firstDelta), r.end),
                         PinnedB(r.n, r.start, Val(r.firstDelta), r.end),
                         r.start, k - 1)]

\* generate_sequence(n, start, firstDelta, end, ith) run from entry to exit
\* with nothing else running.
GenerateSequence(r) ==
    IF InvalidLength(r.n)
    THEN RaiseInvalidLength
    ELSE LET sequence == Reasserted(FittedSequence(r), r.n, r.start,
                                    r.firstDelta, r.end)
         IN  IF r.ith = None
             THEN ReturnSequence(sequence)
             ELSE IF IndexOutOfRange(r.n, Val(r.ith))
             THEN RaiseIndexOutOfRange(Val(r.ith), r.n)
             ELSE ReturnPair(QueryValue(sequence, Val(r.ith)),
                             QueryDelta(sequence, Val(r.ith)))

\* ------------------------------------------------- MCP tools: values
\* The sequences over S of length at most k.
SeqUpTo(S, k) == UNION {[1 .. m -> S] : m \in 0 .. k}

\* No tool is running.
IdleTool ==
    [name |-> "", pc |-> "idle", params |-> <<>>, payload |-> <<>>,
     response |-> <<>>, results |-> <<>>, outcome |-> [kind |-> "none"]]

\* What the backend, or the connection to it, answers to one request.
BackendAnswers(results) ==
    {[kind |-> "timeout", status |-> 0, success |-> FALSE, results |-> <<>>],
     [kind |-> "unreachable", status |-> 0, success |-> FALSE,
      results |-> <<>>]}
    \cup [kind : {"response"}, status : {404, 500}, success : {FALSE},
          results : {<<>>}]
    \cup [kind : {"response"}, status : {200}, success : {FALSE},
          results : {<<>>}]
    \cup [kind : {"response"}, status : {200}, success : {TRUE},
          results : results]

\* return {...}
ToolResult(body) == [kind |-> "result", status |-> 0, body |-> body]

\* raise ValidationError(message)
RaiseValidationError(total) ==
    [kind |-> "ValidationError", status |-> 0, body |-> <<total>>]

\* raise BackendAPIError(status_code, message)
RaiseBackendAPIError(status_code) ==
    [kind |-> "BackendAPIError", status |-> status_code, body |-> <<>>]

\* raise TimeoutError(operation, 60)
RaiseTimeoutError(operation) ==
    [kind |-> "TimeoutError", status |-> 0, body |-> <<operation, 60>>]

\* handle_backend_error raises for a response with status_code >= 400.
BackendRefused(response) == response.status >= 400

\* What a tool does with the answer to its POST when the answer is not a
\* successful one: the except clauses, handle_backend_error, and the test
\* of data["success"].
FailureOutcome(response, operation) ==
    IF response.kind = "timeout" THEN RaiseTimeoutError(operation)
    ELSE IF response.kind = "unreachable" THEN RaiseBackendAPIError(503)
    ELSE IF BackendRefused(response)
    THEN RaiseBackendAPIError(response.status)
    ELSE RaiseBackendAPIError(500)

Succeeded(response) ==
    /\ response.kind = "response"
    /\ ~BackendRefused(response)
    /\ response.success

\* ------------------------------------- MCP tools: run_portfolio_backtest
\* Stocks a portfolio request may list: a symbol and allocation_pct, which
\* the parameter model keeps within 0 .. 100.
StockChoices ==
    [symbol : {"AAPL", "MSFT"},
     allocation_pct : {FromInt(30), FromInt(40), Rat(499, 10), FromInt(50),
                       Rat(501, 10), FromInt(100)}]

PortfolioParams == [stocks : SeqUpTo(StockChoices, MaxStocks)]

\* sum(s.allocation_pct for s in params.stocks)
RECURSIVE TotalAllocation(_)
TotalAllocation(stocks) ==
    IF stocks = <<>> THEN Zero
    ELSE QAdd(TotalAllocation(SubSeq(stocks, 1, Len(stocks) - 1)),
              stocks[Len(stocks)].allocation_pct)

\* Faulty variant of AllocationsAccepted: the ends of the band are
\* rejected.
AllocationsAcceptedInside(total) ==
    QLess(Rat(999, 10), total) /\ QLess(total, Rat(1001, 10))

\* 99.9 <= total_allocation <= 100.1
AllocationsAccepted(total) ==
    ~QLess(total, Rat(999, 10)) /\ ~QLess(Rat(1001, 10), total)

\* The body of the request: the stocks in API format.  The dates, the
\* capital and the grid settings are passed through as they came and are
\* left out.
PortfolioPayload(params) ==
    [stocks |->
        [k \in 1 .. Len(params.stocks) |->
            [symbol |-> params.stocks[k].symbol,
             allocation |->
                 QDiv(params.stocks[k].allocation_pct, FromInt(100))]]]

\* The tool is called with validated parameters.
InvokePortfolio ==
    /\ tool.pc = "idle"
    /\ \E p \in PortfolioParams :
           tool' = [IdleTool EXCEPT !.name = "run_portfolio_backtest",
                                    !.pc = "validate", !.params = p]
    /\ posted' = <<>>
    /\ UNCHANGED <<arith, frame, prior, script>>

\* Lines 164-182: the allocation check, then the payload.
ValidateAllocations ==
    /\ tool.name = "run_portfolio_backtest"
    /\ tool.pc = "validate"
    /\ LET total == TotalAllocation(tool.params.stocks) IN
       tool' = IF AllocationsAccepted(total)
               THEN [tool EXCEPT !.pc = "post",
                                 !.payload = PortfolioPayload(tool.params)]
               ELSE [tool EXCEPT !.pc = "done",
                                 !.outcome = RaiseValidationError(total)]
    /\ UNCHANGED <<arith, frame, prior, posted, script>>

\* Line 184: the POST, answered in any way.
PostPortfolio ==
    /\ tool.name = "run_portfolio_backtest"
    /\ tool.pc = "post"
    /\ posted' = Append(posted, [method |-> "POST",
                                 path |-> "/api/backtest/portfolio",
                                 json |-> tool.payload])
    /\ \E answer \in BackendAnswers({<<>>}) :
           tool' = [tool EXCEPT !.pc = "respond", !.response = answer]
    /\ UNCHANGED <<arith, frame, prior, script>>

\* Lines 185-221: the answer becomes the tool's result or its error.  The
\* metrics of the result are copied from the answer and are left out.
RespondPortfolio ==
    /\ tool.name = "run_portfolio_backtest"
    /\ tool.pc = "respond"
    /\ tool' = [tool EXCEPT
                  !.pc = "done",
                  !.outcome =
                      IF Succeeded(tool.response)
                      THEN ToolResult(<<>>)
                      ELSE FailureOutcome(tool.response,
                                          "Portfolio backtest")]
    /\ UNCHANGED <<arith, frame, prior, posted, script>>

\* ------------------------------------- MCP tools: run_batch_optimization
\* The parameter grids of a batch request.  enable_momentum_sell is an
\* optional list: None, or Some(list) with the list possibly empty.
Grids ==
    [grid_spacing : {<<>>, <<Rat(1, 20)>>, <<Rat(1, 20), Rat(1, 10)>>},
     profit_target : {<<>>, <<Rat(3, 100)>>, <<Rat(3, 100), Rat(1, 20)>>},
     enable_momentum_sell :
         {None, Some(<<>>), Some(<<FALSE>>), Some(<<FALSE, TRUE>>)}]

BatchParams == [parameter_grid : Grids]

\* The results a backend answer may list.  Two of them have the same
\* totalReturn.
ResultChoices ==
    {[parameters |-> [gridSpacing |-> Rat(1, 20), profitTarget |-> Rat(3, 100),
                      enableMomentumSell |-> FALSE],
      totalReturn |-> Rat(-3, 2), numTrades |-> 4],
     [parameters |-> [gridSpacing |-> Rat(1, 10), profitTarget |-> Rat(3, 100),
                      enableMomentumSell |-> FALSE],
      totalReturn |-> Rat(17, 8), numTrades |-> 7],
     [parameters |-> [gridSpacing |-> Rat(1, 20), profitTarget |-> Rat(3, 100),
                      enableMomentumSell |-> TRUE],
      totalReturn |-> Rat(17, 8), numTrades |-> 9]}

\* The concatenation of a sequence of sequences.
RECURSIVE Concat(_)
Concat(ss) ==
    IF ss = <<>> THEN <<>>
    ELSE Concat(SubSeq(ss, 1, Len(ss) - 1)) \o ss[Len(ss)]

\* grid.enable_momentum_sell or [False]
MomentumValues(grid) ==
    IF grid.enable_momentum_sell = None \/ Val(grid.enable_momentum_sell) = <<>>
    THEN <<FALSE>>
    ELSE Val(grid.enable_momentum_sell)

\* The three nested loops of lines 270-279, outermost first.
Combinations(grid) ==
    LET ForTarget(spacing, target) ==
            [m \in 1 .. Len(MomentumValues(grid)) |->
                [gridSpacing |-> spacing, profitTarget |-> target,
                 enableMomentumSell |-> MomentumValues(grid)[m]]]
        ForSpacing(spacing) ==
            Concat([t \in 1 .. Len(grid.profit_target) |->
                       ForTarget(spacing, grid.profit_target[t])])
    IN  Concat([g \in 1 .. Len(grid.grid_spacing) |->
                   ForSpacing(grid.grid_spacing[g])])

\* The body of the request; the symbol, the dates and the capital are
\* passed through as they came and are left out.
BatchPayload(params) ==
    [parameterCombinations |-> Combinations(params.parameter_grid)]

\* Faulty variant of SortedByReturn: reverse=True is missing, the order is
\* ascending.
RECURSIVE SortedAscending(_)
SortedAscending(results) ==
    IF results = <<>> THEN <<>>
    ELSE LET front == SortedAscending(SubSeq(results, 1, Len(results) - 1))
             r == results[Len(results)]
             k == Cardinality({j \in 1 .. Len(front) :
                      ~QLess(r.totalReturn, front[j].totalReturn)})
         IN  SubSeq(front, 1, k) \o <<r>> \o SubSeq(front, k + 1, Len(front))

\* sorted(results, key=lambda x: x["totalReturn"], reverse=True): descending
\* and stable, results of equal return keep their order.
RECURSIVE SortedByReturn(_)
SortedByReturn(results) ==
    IF results = <<>> THEN <<>>
    ELSE LET front == SortedByReturn(SubSeq(results, 1, Len(results) - 1))
             r == results[Len(results)]
             k == Cardinality({j \in 1 .. Len(front) :
                      ~QLess(front[j].totalReturn, r.totalReturn)})
         IN  SubSeq(front, 1, k) \o <<r>> \o SubSeq(front, k + 1, Len(front))

\* round(x, 2): the nearest multiple of 1/100, ties to the even one.
Round2(x) ==
    IF x[1] < 0
    THEN Rat(-RoundHalfEven(-x[1] * 100, x[2]), 100)
    ELSE Rat(RoundHalfEven(x[1] * 100, x[2]), 100)

\* f"{x * 100}%"
Percent(x) == <<QMul(x, FromInt(100)), "%">>

\* The entry of best_configuration for result r.
BestConfiguration(r) ==
    [grid_spacing |-> Percent(r.parameters.gridSpacing),
     profit_target |-> Percent(r.parameters.profitTarget),
     momentum_enabled |-> r.parameters.enableMomentumSell,
     total_return_pct |-> Round2(r.totalReturn),
     num_trades |-> r.numTrades]

\* The entry of top_5_configurations for result r at position i (from 0).
RankedConfiguration(r, i) ==
    [rank |-> i + 1,
     grid_spacing |-> Percent(r.parameters.gridSpacing),
     profit_target |-> Percent(r.parameters.profitTarget),
     total_return_pct |-> Round2(r.totalReturn)]

\* sorted_results[:5]
FirstFive(sorted_results) ==
    SubSeq(sorted_results, 1,
           IF Len(sorted_results) < 5 THEN Len(sorted_results) ELSE 5)

\* Lines 296-329 for a successful answer: the ranking and the result; an
\* empty list of results fails at sorted_results[0].
Ranking(results) ==
    LET sorted_results == SortedByReturn(results) IN
    IF sorted_results = <<>>
    THEN [kind |-> "IndexError", status |-> 0, body |-> <<>>]
    ELSE ToolResult(
             [total_combinations_tested |-> Len(results),
              best_configuration |-> BestConfiguration(sorted_results[1]),
              top_5_configurations |->
                  [i \in 1 .. Len(FirstFive(sorted_results)) |->
                      RankedConfiguration(sorted_results[i], i - 1)]])

\* The tool is called with validated parameters.
InvokeBatch ==
    /\ tool.pc = "idle"
    /\ \E p \in BatchParams :
           tool' = [IdleTool EXCEPT !.name = "run_batch_optimization",
                                    !.pc = "build", !.params = p]
    /\ posted' = <<>>
    /\ UNCHANGED <<arith, frame, prior, script>>

\* Lines 266-287: the parameter combinations and the payload.
BuildCombinations ==
    /\ tool.name = "run_batch_optimization"
    /\ tool.pc = "build"
    /\ tool' = [tool EXCEPT !.pc = "post",
                            !.payload = BatchPayload(tool.params)]
    /\ UNCHANGED <<arith, frame, prior, posted, script>>

\* Line 289: the POST, answered in any way.
PostBatch ==
    /\ tool.name = "run_batch_optimization"
    /\ tool.pc = "post"
    /\ posted' = Append(posted, [method |-> "POST",
                                 path |-> "/api/backtest/batch",
                                 json |-> tool.payload])
    /\ \E answer \in BackendAnswers(SeqUpTo(ResultChoices, MaxResults)) :
           tool' = [tool EXCEPT !.pc = "respond", !.response = answer]
    /\ UNCHANGED <<arith, frame, prior, script>>

\* Lines 290-336: the answer becomes the ranking or the tool's error.
RankResults ==
    /\ tool.name = "run_batch_optimization"
    /\ tool.pc = "respond"
    /\ tool' = [tool EXCEPT
                  !.pc = "done",
                  !.outcome =
                      IF Succeeded(tool.response)
                      THEN Ranking(tool.response.results)
                      ELSE FailureOutcome(tool.response,
                                          "Batch optimization")]
    /\ UNCHANGED <<arith, frame, prior, posted, script>>

\* The MCP client has the result or the error; the invocation is over.
ToolReturns ==
    /\ tool.pc = "done"
    /\ tool' = IdleTool
    /\ UNCHANGED <<arith, frame, prior, posted, script>>

\* ------------------------------------------- MCP tools: run_dca_backtest
Symbols == {"AAPL", "MSFT"}

\* The connection failed: httpx.RequestError, of which
\* httpx.TimeoutException is a subclass.
ConnectionFailed(response) == response.kind \in {"timeout", "unreachable"}

\* A tool whose only except clause is `except httpx.RequestError`: what it
\* raises when the answer is not a successful one, unsuccessful being the
\* status it gives to an answer without "success".
RequestErrorOutcome(response, unsuccessful) ==
    IF ConnectionFailed(response) THEN RaiseBackendAPIError(503)
    ELSE IF BackendRefused(response)
    THEN RaiseBackendAPIError(response.status)
    ELSE RaiseBackendAPIError(unsuccessful)

\* The request of a tool at its http_client.post or http_client.get,
\* answered in any of the given ways.
Request(method, path, answers) ==
    /\ tool.pc = "post"
    /\ posted' = Append(posted, [method |-> method, path |-> path,
                                 json |-> tool.payload])
    /\ \E answer \in answers :
           tool' = [tool EXCEPT !.pc = "respond", !.response = answer]
    /\ UNCHANGED <<arith, frame, prior, script>>

DcaParams == [symbol : Symbols]

\* Lines 60-69: the tool is called and dumps its parameters as the payload.
InvokeDca ==
    /\ tool.pc = "idle"
    /\ \E p \in DcaParams :
           tool' = [IdleTool EXCEPT !.name = "run_dca_backtest",
                                    !.pc = "post", !.params = p,
                                    !.payload = p]
    /\ posted' = <<>>
    /\ UNCHANGED <<arith, frame, prior, script>>

\* Line 72.
PostDca ==
    /\ tool.name = "run_dca_backtest"
    /\ Request("POST", "/api/backtest/dca",
               BackendAnswers({<<>>}))

\* Lines 73-115; the metrics of the result are copied from the answer and
\* are left out.
RespondDca ==
    /\ tool.name = "run_dca_backtest"
    /\ tool.pc = "respond"
    /\ tool' = [tool EXCEPT
                  !.pc = "done",
                  !.outcome =
                      IF Succeeded(tool.response)
                      THEN ToolResult(<<>>)
                      ELSE FailureOutcome(tool.response, "DCA backtest")]
    /\ UNCHANGED <<arith, frame, prior, posted, script>>

\* --------------------------------------------- MCP tools: calculate_beta
BetaParams == [symbol : Symbols, period : {30, 252}]

\* The betas the backend may report.
Betas ==
    {Rat(-1, 2), Rat(9, 10), Rat(19, 20), Rat(97, 100), Rat(9999, 10000),
     FromInt(1), Rat(51, 50), Rat(21, 20), Rat(10501, 10000), Rat(3, 2)}

\* round(x, 3): the nearest multiple of 1/1000, ties to the even one.
Round3(x) ==
    IF x[1] < 0
    THEN Rat(-RoundHalfEven(-x[1] * 1000, x[2]), 1000)
    ELSE Rat(RoundHalfEven(x[1] * 1000, x[2]), 1000)

\* Lines 54-60: the conditional expression, its tests in the order of the
\* code.
Interpretation(beta) ==
    IF QLess(beta, FromInt(1)) THEN "Low volatility (< 1)"
    ELSE IF ~QLess(beta, Rat(95, 100)) /\ ~QLess(Rat(105, 100), beta)
    THEN "Market volatility (~ 1)"
    ELSE "High volatility (> 1)"

\* Lines 24-33.
InvokeBeta ==
    /\ tool.pc = "idle"
    /\ \E p \in BetaParams :
           tool' = [IdleTool EXCEPT !.name = "calculate_beta",
                                    !.pc = "post", !.params = p,
                                    !.payload = p]
    /\ posted' = <<>>
    /\ UNCHANGED <<arith, frame, prior, script>>

\* Line 31; results is data["data"]["beta"].
PostBeta ==
    /\ tool.name = "calculate_beta"
    /\ Request("POST", "/api/beta/calculate",
               BackendAnswers(Betas))

\* Lines 35-64.
RespondBeta ==
    /\ tool.name = "calculate_beta"
    /\ tool.pc = "respond"
    /\ tool' = [tool EXCEPT
                  !.pc = "done",
                  !.outcome =
                      IF Succeeded(tool.response)
                      THEN ToolResult(
                               [symbol |-> tool.params.symbol,
                                beta |-> Round3(tool.response.results),
                                period_days |-> tool.params.period,
                                interpretation |->
                                    Interpretation(tool.response.results)])
                      ELSE RequestErrorOutcome(tool.response, 500)]
    /\ UNCHANGED <<arith, frame, prior, posted, script>>

\* ----------------------------------------- MCP tools: compare_strategies
StrategyChoices ==
    {[name |-> "tight", grid_spacing |-> Rat(1, 20)],
     [name |-> "wide", grid_spacing |-> Rat(1, 10)]}

\* min_length=2 of line 78; the model stops at MaxStrategies.
CompareParams ==
    [symbol : Symbols,
     strategies : {s \in SeqUpTo(StrategyChoices, MaxStrategies) :
                      Len(s) >= 2}]

\* The Sharpe ratios the backend may report.
Sharpes == {Rat(1, 2), FromInt(1)}

\* Lines 97-106 for the strategy the loop is at.
StrategyPayload(params, strategy) ==
    [symbol |-> params.symbol, grid_spacing |-> strategy.grid_spacing]

\* max(results, key=...): the first result of the largest Sharpe ratio.
BestStrategy(results) ==
    LET k == CHOOSE k \in 1 .. Len(results) :
                 /\ \A j \in 1 .. Len(results) :
                        ~QLess(results[k].sharpe_ratio,
                               results[j].sharpe_ratio)
                 /\ \A j \in 1 .. k - 1 :
                        QLess(results[j].sharpe_ratio,
                              results[k].sharpe_ratio)
    IN  results[k]

\* Lines 85-106: results = [] and the payload of the first strategy.
InvokeCompare ==
    /\ tool.pc = "idle"
    /\ \E p \in CompareParams :
           tool' = [IdleTool EXCEPT
                      !.name = "compare_strategies", !.pc = "post",
                      !.params = p,
                      !.payload = StrategyPayload(p, p.strategies[1])]
    /\ posted' = <<>>
    /\ UNCHANGED <<arith, frame, prior, script>>

\* Line 109; results is data["data"]["sharpeRatio"].
PostStrategy ==
    /\ tool.name = "compare_strategies"
    /\ Request("POST", "/api/backtest/dca",
               BackendAnswers(Sharpes))

\* Lines 112-140 and 159-160 for one strategy: whatever is raised inside
\* the try block, a connection error, the BackendAPIError of
\* handle_backend_error or the one of line 116, is caught by
\* `except Exception` and raised again with status 500.
RespondStrategy ==
    /\ tool.name = "compare_strategies"
    /\ tool.pc = "respond"
    /\ LET strategies == tool.params.strategies
           results ==
               Append(tool.results,
                      [strategy_name |-> strategies[Len(tool.results) + 1].name,
                       sharpe_ratio |-> Round3(tool.response.results)])
       IN  tool' =
               IF ~Succeeded(tool.response)
               THEN [tool EXCEPT !.pc = "done",
                                 !.outcome = RaiseBackendAPIError(500)]
               ELSE IF Len(results) < Len(strategies)
               THEN [tool EXCEPT
                       !.pc = "post", !.results = results,
                       !.payload =
                           StrategyPayload(tool.params,
                                           strategies[Len(results) + 1])]
               ELSE [tool EXCEPT !.pc = "compare", !.results = results]
    /\ UNCHANGED <<arith, frame, prior, posted, script>>

\* Lines 143-157.
CompareResults ==
    /\ tool.name = "compare_strategies"
    /\ tool.pc = "compare"
    /\ tool' = [tool EXCEPT
                  !.pc = "done",
                  !.outcome =
                      ToolResult(
                          [strategies_compared |-> Len(tool.results),
                           comparison_table |-> tool.results,
                           best_strategy |->
                               BestStrategy(tool.results).strategy_name])]
    /\ UNCHANGED <<arith, frame, prior, posted, script>>

\* ---------------------------------- MCP tools: get_dca_suitability_score
\* The scores the backend may report.
Scores ==
    {Zero, Rat(299, 10), FromInt(30), FromInt(50), Rat(6996, 100),
     FromInt(70), FromInt(100)}

\* round(x, 1): the nearest multiple of 1/10, ties to the even one.
Round1(x) ==
    IF x[1] < 0
    THEN Rat(-RoundHalfEven(-x[1] * 10, x[2]), 10)
    ELSE Rat(RoundHalfEven(x[1] * 10, x[2]), 10)

\* Lines 200-208.
ScoreInterpretation(score) ==
    IF QLess(score, FromInt(30)) THEN "Poor candidate"
    ELSE IF QLess(score, FromInt(50)) THEN "Fair candidate"
    ELSE IF QLess(score, FromInt(70)) THEN "Good candidate"
    ELSE "Excellent candidate"

\* Lines 170-185.
InvokeSuitability ==
    /\ tool.pc = "idle"
    /\ \E p \in DcaParams :
           tool' = [IdleTool EXCEPT
                      !.name = "get_dca_suitability_score", !.pc = "post",
                      !.params = p,
                      !.payload = [symbol |-> p.symbol,
                                   grid_spacing |-> Rat(1, 10)]]
    /\ posted' = <<>>
    /\ UNCHANGED <<arith, frame, prior, script>>

\* Line 187; results is data["data"]["dcaSuitabilityScore"].
PostSuitability ==
    /\ tool.name = "get_dca_suitability_score"
    /\ Request("POST", "/api/backtest/dca",
               BackendAnswers(Scores))

\* Lines 188-224: a connection error is caught by
\* `except httpx.RequestError`; the BackendAPIError of handle_backend_error
\* and the one of line 192 are caught by `except Exception` and raised
\* again with status 500.
RespondSuitability ==
    /\ tool.name = "get_dca_suitability_score"
    /\ tool.pc = "respond"
    /\ tool' = [tool EXCEPT
                  !.pc = "done",
                  !.outcome =
                      IF Succeeded(tool.response)
                      THEN ToolResult(
                               [symbol |-> tool.params.symbol,
                                overall_score |->
                                    Round1(tool.response.results),
                                interpretation |->
                                    ScoreInterpretation(
                                        tool.response.results)])
                      ELSE IF ConnectionFailed(tool.response)
                      THEN RaiseBackendAPIError(503)
                      ELSE RaiseBackendAPIError(500)]
    /\ UNCHANGED <<arith, frame, prior, posted, script>>

\* -------------------------------- MCP tools: list_stocks, get_stock_info
ListStocksParams == [limit : {1, 2}, offset : {0, 1}]

\* The totalCount the backend may report.
TotalCounts == {0, 2, 3}

\* Lines 19-28.
InvokeListStocks ==
    /\ tool.pc = "idle"
    /\ \E p \in ListStocksParams :
           tool' = [IdleTool EXCEPT !.name = "list_stocks", !.pc = "post",
                                    !.params = p, !.payload = p]
    /\ posted' = <<>>
    /\ UNCHANGED <<arith, frame, prior, script>>

\* Line 26; results is data["totalCount"].
GetStocks ==
    /\ tool.name = "list_stocks"
    /\ Request("GET", "/api/stocks",
               BackendAnswers(TotalCounts))

\* Lines 29-47: the answer is not tested for "success"; totalCount is 0
\* when the answer has none.
RespondListStocks ==
    /\ tool.name = "list_stocks"
    /\ tool.pc = "respond"
    /\ LET total_count == IF tool.response.success
                          THEN tool.response.results ELSE 0
       IN  tool' = [tool EXCEPT
                      !.pc = "done",
                      !.outcome =
                          IF /\ tool.response.kind = "response"
                             /\ ~BackendRefused(tool.response)
                          THEN ToolResult(
                                   [total_count |-> total_count,
                                    has_more |->
                                        tool.params.offset
                                          + tool.params.limit < total_count])
                          ELSE RequestErrorOutcome(tool.response, 500)]
    /\ UNCHANGED <<arith, frame, prior, posted, script>>

\* Lines 53-58.
InvokeStockInfo ==
    /\ tool.pc = "idle"
    /\ \E p \in DcaParams :
           tool' = [IdleTool EXCEPT !.name = "get_stock_info",
                                    !.pc = "post", !.params = p]
    /\ posted' = <<>>
    /\ UNCHANGED <<arith, frame, prior, script>>

\* Line 58.
GetStockInfo ==
    /\ tool.name = "get_stock_info"
    /\ Request("GET", <<"/api/stocks/", tool.params.symbol>>,
               BackendAnswers({<<>>}))

\* Lines 59-87; the fields of the result are copied from the answer and are
\* left out.
RespondStockInfo ==
    /\ tool.name = "get_stock_info"
    /\ tool.pc = "respond"
    /\ tool' = [tool EXCEPT
                  !.pc = "done",
                  !.outcome =
                      IF Succeeded(tool.response)
                      THEN ToolResult(<<>>)
                      ELSE RequestErrorOutcome(tool.response, 404)]
    /\ UNCHANGED <<arith, frame, prior, posted, script>>

\* ----------------------------------------------- MCP tools: health_check
\* What may answer GET /api/health: the answers of BackendAnswers and a
\* status that is neither 200 nor an error.
HealthAnswers ==
    BackendAnswers({<<>>})
    \cup [kind : {"response"}, status : {204}, success : {TRUE},
          results : {<<>>}]

\* Faulty variant of Healthy: every status below 400 counts.
HealthyBelow400(response) == response.status < 400

\* response.status_code == 200
Healthy(response) == response.status = 200

\* Lines 11-17.
InvokeHealth ==
    /\ tool.pc = "idle"
    /\ tool' = [IdleTool EXCEPT !.name = "health_check", !.pc = "post"]
    /\ posted' = <<>>
    /\ UNCHANGED <<arith, frame, prior, script>>

\* Line 18.
GetHealth ==
    /\ tool.name = "health_check"
    /\ Request("GET", "/api/health",
               HealthAnswers)

\* Lines 20-42: every way out is a return.
RespondHealth ==
    /\ tool.name = "health_check"
    /\ tool.pc = "respond"
    /\ tool' = [tool EXCEPT
                  !.pc = "done",
                  !.outcome =
                      IF ConnectionFailed(tool.response)
                      THEN ToolResult([success |-> FALSE,
                                       backend_status |-> "unreachable"])
                      ELSE IF Healthy(tool.response)
                      THEN ToolResult([success |-> TRUE,
                                       backend_status |-> "healthy"])
                      ELSE ToolResult(
                               [success |-> FALSE,
                                backend_status |-> "unhealthy",
                                status_code |-> tool.response.status])]
    /\ UNCHANGED <<arith, frame, prior, posted, script>>

\* ------------------------------------------- the module run as a script
\* def generate_sequence(n, start=0.0, firstDelta=0.05, end=0.7, ith=None)
Parameters == <<"n", "start", "firstDelta", "end", "ith">>

\* The two calls of the __main__ block, lines 101 and 124: the positional
\* arguments and the keyword arguments as written.
ScriptTests ==
    <<[positional |-> <<10>>,
       keywords |-> [start |-> Zero, firstDelta |-> Rat(1, 20),
                     end |-> Rat(7, 10), ith |-> None]],
      [positional |-> <<7>>,
       keywords |-> [start |-> Zero, second |-> Rat(1, 10),
                     end |-> Rat(7, 10), ith |-> None]]>>

\* The keyword arguments of a call that name no parameter of the function.
UnexpectedKeywords(call) ==
    DOMAIN call.keywords \ {Parameters[k] : k \in 1 .. Len(Parameters)}

\* The binding of the arguments to the parameters: the positional argument
\* is n, a keyword argument is the parameter of its name, and a parameter
\* without argument takes its default.  A decimal literal is the float
\* nearest to it.
Bind(call) ==
    LET given(name, default) ==
            IF name \in DOMAIN call.keywords THEN call.keywords[name]
            ELSE default
    IN  [n |-> call.positional[1],
         start |-> Rnd(given("start", Zero)),
         firstDelta |->
             LET d == given("firstDelta", Rat(1, 20)) IN
             IF d = None THEN None ELSE Some(Rnd(d)),
         end |-> Rnd(given("end", Rat(7, 10))),
         ith |-> given("ith", None)]

\* f"{x:.4f}" and f"{x:.2f}": x to so many decimals, ties to the even one.
Fixed(x, decimals) ==
    IF x[1] < 0
    THEN Rat(-RoundHalfEven(-x[1] * 10 ^ decimals, x[2]), 10 ^ decimals)
    ELSE Rat(RoundHalfEven(x[1] * 10 ^ decimals, x[2]), 10 ^ decimals)

\* The script is not running.
IdleScript ==
    [pc |-> "idle", test |-> 0, seq |-> <<>>, i |-> 0, delta |-> Zero,
     abs_increments |-> <<>>, printed |-> <<>>, error |-> ""]

\* --------------------------------------------------------------- frames
\* No activation: the caller is outside generate_sequence.
IdleFrame ==
    [pc |-> "idle", n |-> 0, start |-> Zero, firstDelta |-> None,
     end |-> Zero, ith |-> None, sequence |-> <<>>, i |-> 0,
     a |-> Zero, b |-> Zero, c |-> Zero, reasserted |-> FALSE,
     outcome |-> NoOutcome]

\* def generate_sequence(n, start, firstDelta, end, ith): the arguments
\* are bound and no local exists yet.
EntryFrame(r) ==
    [IdleFrame EXCEPT !.pc = "check_length", !.n = r.n, !.start = r.start,
                      !.firstDelta = r.firstDelta, !.end = r.end,
                      !.ith = r.ith]

RequestOf(f) ==
    [n |-> f.n, start |-> f.start, firstDelta |-> f.firstDelta,
     end |-> f.end, ith |-> f.ith]

Init ==
    /\ arith = "float"
    /\ frame = [c \in Callers |-> IdleFrame]
    /\ prior = None
    /\ tool = IdleTool
    /\ posted = <<>>
    /\ script = IdleScript

\* Caller c invokes the function with a request of rs; calls do not overlap.
Call(c, rs) ==
    /\ \A d \in Callers : frame[d].pc = "idle"
    /\ \E r \in rs : frame' = [frame EXCEPT ![c] = EntryFrame(r)]
    /\ UNCHANGED <<arith, prior, tool, posted, script>>

\* Caller c invokes the function while other callers may be inside it.
CallConcurrent(c, rs) ==
    /\ frame[c].pc = "idle"
    /\ \E r \in rs : frame' = [frame EXCEPT ![c] = EntryFrame(r)]
    /\ UNCHANGED <<arith, prior, tool, posted, script>>

\* Faulty variant of CheckLength: ith is validated together with n, before any
\* element is computed.
CheckLengthAndIndex(c) ==
    LET f == frame[c] IN
    /\ f.pc = "check_length"
    /\ frame' = [frame EXCEPT ![c] =
          IF InvalidLength(f.n)
          THEN [f EXCEPT !.pc = "done", !.outcome = RaiseInvalidLength]
          ELSE IF f.ith # None /\ IndexOutOfRange(f.n, Val(f.ith))
          THEN [f EXCEPT !.pc = "done",
                         !.outcome = RaiseIndexOutOfRange(Val(f.ith), f.n)]
          ELSE IF f.firstDelta = None
          THEN [f EXCEPT !.pc = "natural_loop", !.sequence = NewSequence,
                         !.i = 0]
          ELSE [f EXCEPT !.pc = "fit"]]
    /\ UNCHANGED <<arith, prior, tool, posted, script>>

\* Lines 25-30: the length check, then the choice of mode.
CheckLength(c) ==
    LET f == frame[c] IN
    /\ f.pc = "check_length"
    /\ frame' = [frame EXCEPT ![c] =
          IF InvalidLength(f.n)
          THEN [f EXCEPT !.pc = "done", !.outcome = RaiseInvalidLength]
          ELSE IF f.firstDelta = None
          THEN [f EXCEPT !.pc = "natural_loop", !.sequence = NewSequence,
                         !.i = 0]
          ELSE [f EXCEPT !.pc = "fit"]]
    /\ UNCHANGED <<arith, prior, tool, posted, script>>

\* Lines 31-35: one iteration of the natural-mode loop.
NaturalStep(c) ==
    LET f == frame[c] IN
    /\ f.pc = "natural_loop"
    /\ LoopContinues(f.n, f.i)
    /\ frame' = [frame EXCEPT ![c] =
          [f EXCEPT !.sequence =
                        Append(f.sequence,
                               NaturalValue(f.n, f.start, f.end, f.i)),
                    !.i = f.i + 1]]
    /\ UNCHANGED <<arith, prior, tool, posted, script>>

\* Lines 38-72: the coefficients of the pinned fit.
Fit(c) ==
    LET f == frame[c] IN
    /\ f.pc = "fit"
    /\ frame' = [frame EXCEPT ![c] =
          [f EXCEPT !.pc = "pinned_loop",
                    !.c = f.start,
                    !.a = PinnedA(f.n, f.start, Val(f.firstDelta), f.end),
                    !.b = PinnedB(f.n, f.start, Val(f.firstDelta), f.end),
                    !.sequence = NewSequence,
                    !.i = 0]]
    /\ UNCHANGED <<arith, prior, tool, posted, script>>

\* Lines 73-75: one iteration of the pinned-mode loop.
PinnedStep(c) ==
    LET f == frame[c] IN
    /\ f.pc = "pinned_loop"
    /\ LoopContinues(f.n, f.i)
    /\ frame' = [frame EXCEPT ![c] =
          [f EXCEPT !.sequence =
                        Append(f.sequence, PinnedValue(f.a, f.b, f.c, f.i)),
                    !.i = f.i + 1]]
    /\ UNCHANGED <<arith, prior, tool, posted, script>>

\* Faulty variant of Reassert: the list is shared by the callers, so the
\* boundary values of caller c land in every list under construction.
ReassertShared(c) ==
    LET f == frame[c] IN
    /\ f.pc \in {"natural_loop", "pinned_loop"}
    /\ ~LoopContinues(f.n, f.i)
    /\ frame' = [d \in Callers |->
          IF d = c
          THEN [f EXCEPT !.pc = "query",
                         !.sequence = Reasserted(f.sequence, f.n, f.start,
                                                 f.firstDelta, f.end),
                         !.reasserted = TRUE]
          ELSE IF frame[d].sequence # <<>>
          THEN [frame[d] EXCEPT !.sequence =
                    Reasserted(frame[d].sequence, f.n, f.start,
                               f.firstDelta, f.end)]
          ELSE frame[d]]
    /\ UNCHANGED <<arith, prior, tool, posted, script>>

\* Lines 78-81: the loop is over; the boundary values are re-asserted.
Reassert(c) ==
    LET f == frame[c] IN
    /\ f.pc \in {"natural_loop", "pinned_loop"}
    /\ ~LoopContinues(f.n, f.i)
    /\ frame' = [frame EXCEPT ![c] =
          [f EXCEPT !.pc = "query",
                    !.sequence = Reasserted(f.sequence, f.n, f.start,
                                            f.firstDelta, f.end),
                    !.reasserted = TRUE]]
    /\ UNCHANGED <<arith, prior, tool, posted, script>>

\* Faulty variant of Query: the test `if ith:` instead of
\* `if ith is not None:`, so that ith = 0 returns the whole sequence.
QueryTruthyIth(c) ==
    LET f == frame[c] IN
    /\ f.pc = "query"
    /\ frame' = [frame EXCEPT ![c] =
          [f EXCEPT !.pc = "done",
                    !.outcome =
                        IF f.ith = None \/ f.ith = Some(0)
                        THEN ReturnSequence(f.sequence)
                        ELSE IF IndexOutOfRange(f.n, Val(f.ith))
                        THEN RaiseIndexOutOfRange(Val(f.ith), f.n)
                        ELSE ReturnPair(QueryValue(f.sequence, Val(f.ith)),
                                        QueryDelta(f.sequence, Val(f.ith)))]]
    /\ UNCHANGED <<arith, prior, tool, posted, script>>

\* Lines 84-96: the index check and the return.
Query(c) ==
    LET f == frame[c] IN
    /\ f.pc = "query"
    /\ frame' = [frame EXCEPT ![c] =
          [f EXCEPT !.pc = "done",
                    !.outcome =
                        IF f.ith = None
                        THEN ReturnSequence(f.sequence)
                        ELSE IF IndexOutOfRange(f.n, Val(f.ith))
                        THEN RaiseIndexOutOfRange(Val(f.ith), f.n)
                        ELSE ReturnPair(QueryValue(f.sequence, Val(f.ith)),
                                        QueryDelta(f.sequence, Val(f.ith)))]]
    /\ UNCHANGED <<arith, prior, tool, posted, script>>

\* The caller has the outcome; the activation and its locals are gone.
Discard(c) ==
    /\ frame[c].pc = "done"
    /\ frame' = [frame EXCEPT ![c] = IdleFrame]
    /\ UNCHANGED <<arith, prior, tool, posted, script>>

\* As Discard, and the invocation is the one remembered from now on.
Remember(c) ==
    /\ frame[c].pc = "done"
    /\ prior' = Some([request |-> RequestOf(frame[c]),
                      outcome |-> frame[c].outcome])
    /\ frame' = [frame EXCEPT ![c] = IdleFrame]
    /\ UNCHANGED <<arith, tool, posted, script>>

Step(c) ==
    \/ CheckLength(c)
    \/ NaturalStep(c)
    \/ Fit(c)
    \/ PinnedStep(c)
    \/ Reassert(c)
    \/ Query(c)
    \/ Discard(c)

Next == \E c \in Callers : Call(c, Requests) \/ Step(c)

Spec == Init /\ [][Next]_vars

\* Repeated invocations on a small set of requests, one of them remembered.
NextRepeat ==
    \E c \in Callers : Call(c, RepeatRequests) \/ Step(c) \/ Remember(c)

SpecRepeat == Init /\ [][NextRepeat]_vars

\* A call that has been entered keeps executing: the interpreter runs the
\* statements of the function body one after the other, so every enabled
\* step of a caller is eventually taken.
NextFair == \E c \in Callers : Call(c, FairRequests) \/ Step(c)

SpecFair ==
    Init /\ [][NextFair]_vars /\ \A c \in Callers : WF_vars(Step(c))

\* Overlapping invocations: every caller may enter at any time and the
\* steps of the calls interleave freely.
NextConcurrent ==
    \E c \in Callers : CallConcurrent(c, ConcurrentRequests) \/ Step(c)

SpecConcurrent == Init /\ [][NextConcurrent]_vars

\* The same program evaluated in exact arithmetic, for statements made
\* about the curve as a curve over the reals.
InitReal ==
    /\ arith = "real"
    /\ frame = [c \in Callers |-> IdleFrame]
    /\ prior = None
    /\ tool = IdleTool
    /\ posted = <<>>
    /\ script = IdleScript

\* The program in floating point and the program in exact arithmetic side
\* by side, for statements that hold of one and not of the other.
InitArith ==
    /\ arith \in {"float", "real"}
    /\ frame = [c \in Callers |-> IdleFrame]
    /\ prior = None
    /\ tool = IdleTool
    /\ posted = <<>>
    /\ script = IdleScript

NextArith == \E c \in Callers : Call(c, ArithRequests) \/ Step(c)

SpecArith == InitArith /\ [][NextArith]_vars

NextReal == \E c \in Callers : Call(c, RealRequests) \/ Step(c)

SpecReal == InitReal /\ [][NextReal]_vars

\* The first step of natural mode: sequence[1] - sequence[0] of line 38,
\* (end - start) * (1 / (n - 1)) ** 2.
NaturalDelta(n, start, end) ==
    QDiv(QSub(end, start), FromInt((n - 1) * (n - 1)))

\* Request r with firstDelta set to the first step natural mode takes.
PinnedAtNaturalDelta(r) ==
    [r EXCEPT !.firstDelta = Some(NaturalDelta(r.n, r.start, r.end))]

\* Natural-mode requests of every length from 3, rising, level and falling,
\* and for each the pinned-mode request of the same n, start and end whose
\* firstDelta is the first step natural mode takes.
SpecialCaseRequests ==
    LET natural == [n : 3 .. MaxN, start : Endpoints, firstDelta : {None},
                    end : Endpoints, ith : {None}]
    IN  natural \cup {PinnedAtNaturalDelta(r) : r \in natural}

\* Invocations one after the other in exact arithmetic, one earlier
\* invocation remembered.
NextSpecialCase ==
    \E c \in Callers :
        Call(c, SpecialCaseRequests) \/ Step(c) \/ Remember(c)

SpecSpecialCase == InitReal /\ [][NextSpecialCase]_vars

\* The last step of the fitted curve is 2 * (end - start) / (n - 1) less
\* firstDelta: the steps a * (2i - 1) + b of a * i^2 + b * i + c are evenly
\* spaced, the first is firstDelta and all n - 1 sum to end - start.
UpperDelta(n, start, end) ==
    QDiv(QMul(FromInt(2), QSub(end, start)), FromInt(n - 1))

\* Requests over rising spans, in natural mode and in pinned mode: first
\* steps below, at, inside and above the range from 0 to UpperDelta, one of
\* them (1/64) less than half a unit in the last place of start = 1.
RisingRequests ==
    LET spans == {r \in [n : 3 .. MaxN, start : {Zero, FromInt(1)},
                         end : {FromInt(1), Rat(7, 4)}] :
                     QLess(r.start, r.end)}
        firstDeltas(r) ==
            Deltas \cup {Rat(1, 64), UpperDelta(r.n, r.start, r.end),
                         QMul(Rat(1, 2), UpperDelta(r.n, r.start, r.end))}
    IN  UNION {[n : {r.n}, start : {r.start},
                firstDelta : {None} \cup {Some(d) : d \in firstDeltas(r)},
                end : {r.end}, ith : {None}] : r \in spans}

\* The arguments of r are numbers of the arithmetic in use.
Representable(r) ==
    /\ Rnd(r.start) = r.start
    /\ Rnd(r.end) = r.end
    /\ r.firstDelta # None => Rnd(Val(r.firstDelta)) = Val(r.firstDelta)

\* Invocations over rising spans, in either arithmetic.
NextRising ==
    \E c \in Callers :
        Call(c, {r \in RisingRequests : Representable(r)}) \/ Step(c)

SpecRising == InitArith /\ [][NextRising]_vars

\* The MCP tools, one invocation at a time.
NextTools ==
    \/ InvokePortfolio
    \/ ValidateAllocations
    \/ PostPortfolio
    \/ RespondPortfolio
    \/ InvokeBatch
    \/ BuildCombinations
    \/ PostBatch
    \/ RankResults
    \/ ToolReturns

SpecTools == Init /\ [][NextTools]_vars

\* Every MCP tool, one invocation at a time.
NextBackend ==
    \/ NextTools
    \/ InvokeDca
    \/ PostDca
    \/ RespondDca
    \/ InvokeBeta
    \/ PostBeta
    \/ RespondBeta
    \/ InvokeCompare
    \/ PostStrategy
    \/ RespondStrategy
    \/ CompareResults
    \/ InvokeSuitability
    \/ PostSuitability
    \/ RespondSuitability
    \/ InvokeListStocks
    \/ GetStocks
    \/ RespondListStocks
    \/ InvokeStockInfo
    \/ GetStockInfo
    \/ RespondStockInfo
    \/ InvokeHealth
    \/ GetHealth
    \/ RespondHealth

SpecBackend == Init /\ [][NextBackend]_vars

\* ------------------------------------------------- the __main__ block
\* The caller whose activations are the calls of the script.
Main == 1

\* Line 99: the module is run as a script.
RunScript ==
    /\ script.pc = "idle"
    /\ \A c \in Callers : frame[c].pc = "idle"
    /\ tool.pc = "idle"
    /\ script' = [IdleScript EXCEPT !.pc = "header", !.test = 1]
    /\ UNCHANGED <<arith, frame, prior, tool, posted>>

\* Lines 100 and 123: the title of the test.
PrintHeader ==
    /\ script.pc = "header"
    /\ script' = [script EXCEPT
                    !.pc = "call",
                    !.printed = Append(@, <<"Test", script.test>>)]
    /\ UNCHANGED <<arith, frame, prior, tool, posted>>

\* Lines 101 and 124, the call: every keyword names a parameter and the
\* function is entered.
CallTest ==
    /\ script.pc = "call"
    /\ UnexpectedKeywords(ScriptTests[script.test]) = {}
    /\ frame' = [frame EXCEPT
                   ![Main] = EntryFrame(Bind(ScriptTests[script.test]))]
    /\ script' = [script EXCEPT !.pc = "wait"]
    /\ UNCHANGED <<arith, prior, tool, posted>>

\* Lines 101 and 124, the call: a keyword names no parameter, the call
\* raises TypeError before the function is entered, and the script ends
\* with the traceback.
RaiseTypeError ==
    /\ script.pc = "call"
    /\ UnexpectedKeywords(ScriptTests[script.test]) # {}
    /\ script' = [script EXCEPT !.pc = "failed", !.error = "TypeError"]
    /\ UNCHANGED <<arith, frame, prior, tool, posted>>

\* Lines 101 and 124, the assignment: the sequence returned is seq1 or
\* seq2; an error raised by the function ends the script.
TakeSequence ==
    /\ script.pc = "wait"
    /\ frame[Main].pc = "done"
    /\ script' = IF frame[Main].outcome.kind = "sequence"
                 THEN [script EXCEPT !.pc = "sequence",
                                     !.seq = frame[Main].outcome.values]
                 ELSE [script EXCEPT !.pc = "failed",
                                     !.error = frame[Main].outcome.kind]
    /\ frame' = [frame EXCEPT ![Main] = IdleFrame]
    /\ UNCHANGED <<arith, prior, tool, posted>>

\* Lines 102 and 125.
PrintSequence ==
    /\ script.pc = "sequence"
    /\ script' = [script EXCEPT
                    !.pc = "abs_header",
                    !.printed =
                        Append(@, <<"Sequence:",
                                    [k \in 1 .. Len(script.seq) |->
                                        Fixed(script.seq[k], 4)]>>)]
    /\ UNCHANGED <<arith, frame, prior, tool, posted>>

\* Lines 105-107 and 128-130.
StartAbsolute ==
    /\ script.pc = "abs_header"
    /\ script' = [script EXCEPT
                    !.pc = "abs", !.i = 1, !.abs_increments = <<>>,
                    !.printed = Append(@, <<"Absolute increments:">>)]
    /\ UNCHANGED <<arith, frame, prior, tool, posted>>

\* Lines 108 and 131: delta = seq[i] - seq[i-1].
AbsoluteDelta ==
    /\ script.pc = "abs"
    /\ script.i < Len(script.seq)
    /\ script' = [script EXCEPT
                    !.pc = "abs_print",
                    !.delta = Sub(script.seq[script.i + 1],
                                  script.seq[script.i])]
    /\ UNCHANGED <<arith, frame, prior, tool, posted>>

\* Lines 109-110 and 132-133, and the next i of the loop.
PrintAbsolute ==
    /\ script.pc = "abs_print"
    /\ script' = [script EXCEPT
                    !.pc = "abs", !.i = @ + 1,
                    !.abs_increments = Append(@, script.delta),
                    !.printed = Append(@, <<"delta", script.i,
                                            Fixed(script.delta, 4)>>)]
    /\ UNCHANGED <<arith, frame, prior, tool, posted>>

\* Lines 112-113 and 135-136: the first loop is over.
StartRelative ==
    /\ script.pc = "abs"
    /\ script.i >= Len(script.seq)
    /\ script' = [script EXCEPT
                    !.pc = "rel", !.i = 1,
                    !.printed = Append(@, <<"Relative increments (%):">>)]
    /\ UNCHANGED <<arith, frame, prior, tool, posted>>

\* Lines 114 and 137.
RelativeDelta ==
    /\ script.pc = "rel"
    /\ script.i < Len(script.seq)
    /\ script' = [script EXCEPT
                    !.pc = "rel_print",
                    !.delta = Sub(script.seq[script.i + 1],
                                  script.seq[script.i])]
    /\ UNCHANGED <<arith, frame, prior, tool, posted>>

\* Lines 115-119 and 138-142, and the next i of the loop.
PrintRelative ==
    /\ script.pc = "rel_print"
    /\ script' = [script EXCEPT
                    !.pc = "rel", !.i = @ + 1,
                    !.printed =
                        Append(@,
                            IF script.seq[script.i] = Zero
                            THEN <<"delta%", script.i, "undefined">>
                            ELSE <<"delta%", script.i,
                                   Fixed(Mul(Div(script.delta,
                                                 script.seq[script.i]),
                                             FromInt(100)), 2)>>)]
    /\ UNCHANGED <<arith, frame, prior, tool, posted>>

\* The second loop is over: after the first test line 121 prints the rule
\* and the second test begins; after the second test the script ends.
EndRelative ==
    /\ script.pc = "rel"
    /\ script.i >= Len(script.seq)
    /\ script' = IF script.test = 1
                 THEN [script EXCEPT !.pc = "header", !.test = 2,
                                     !.printed = Append(@, <<"=====">>)]
                 ELSE [script EXCEPT !.pc = "done"]
    /\ UNCHANGED <<arith, frame, prior, tool, posted>>

\* The script and the function body its calls execute.
NextScript ==
    \/ RunScript
    \/ PrintHeader
    \/ CallTest
    \/ RaiseTypeError
    \/ TakeSequence
    \/ PrintSequence
    \/ StartAbsolute
    \/ AbsoluteDelta
    \/ PrintAbsolute
    \/ StartRelative
    \/ RelativeDelta
    \/ PrintRelative
    \/ EndRelative
    \/ CheckLength(Main)
    \/ Fit(Main)
    \/ PinnedStep(Main)
    \/ Reassert(Main)
    \/ Query(Main)

SpecScript == InitArith /\ [][NextScript]_vars

\* ---------------------------------------------------------------- claims
\* A completed call of caller c that returned the whole sequence.
ReturnedSequence(c) ==
    frame[c].pc = "done" /\ frame[c].outcome.kind = "sequence"

\* C1: a call with n >= 3 and no ith, natural or pinned, returns a list of
\* exactly n values whose first is start and whose last is end.
EndpointPinning ==
    \A c \in Callers :
        LET f == frame[c] IN
        (f.pc = "done" /\ f.n >= 3 /\ f.ith = None) =>
            /\ f.outcome.kind = "sequence"
            /\ Len(f.outcome.values) = f.n
            /\ f.outcome.values[1] = f.start
            /\ f.outcome.values[f.n] = f.end

\* C1 witness: a pinned call returned its sequence, and the fitted curve
\* evaluated at the last index had drifted away from end.
EndpointPinningWitness ==
    \E c \in Callers :
        LET f == frame[c] IN
        /\ ReturnedSequence(c)
        /\ f.n >= 3
        /\ f.firstDelta # None
        /\ PinnedValue(f.a, f.b, f.c, f.n - 1) # f.end
        /\ f.outcome.values[f.n] = f.end

\* C2 (as claimed): in pinned mode the second element is start + firstDelta
\* and the first step, sequence[1] - sequence[0], equals firstDelta.
FirstStepEqualsDelta ==
    \A c \in Callers :
        LET f == frame[c] IN
        (ReturnedSequence(c) /\ f.n >= 3 /\ f.firstDelta # None) =>
            /\ f.outcome.values[2] = Add(f.start, Val(f.firstDelta))
            /\ Sub(f.outcome.values[2], f.outcome.values[1])
                   = Val(f.firstDelta)

\* C2 (amended): in pinned mode the second element is the sum
\* start + firstDelta as the floating-point addition yields it, for every
\* n >= 3 and every firstDelta, zero and negative included.
SecondIsStartPlusDelta ==
    \A c \in Callers :
        LET f == frame[c] IN
        (ReturnedSequence(c) /\ f.n >= 3 /\ f.firstDelta # None) =>
            f.outcome.values[2] = Add(f.start, Val(f.firstDelta))

\* C2 witness: a pinned call with n = 3, where index 1 is next to the end
\* pin, returned; the fitted curve at index 1 was not start + firstDelta.
SecondIsStartPlusDeltaWitness ==
    \E c \in Callers :
        LET f == frame[c] IN
        /\ ReturnedSequence(c)
        /\ f.n = 3
        /\ f.firstDelta # None
        /\ PinnedValue(f.a, f.b, f.c, 1) # Add(f.start, Val(f.firstDelta))
        /\ f.outcome.values[2] = Add(f.start, Val(f.firstDelta))

\* The step into element k (Python index k) of a returned sequence, and the
\* same step relative to the element before it, as exact quotients.
AbsoluteStep(values, k) == QSub(values[k + 1], values[k])
RelativeStep(values, k) == QDiv(AbsoluteStep(values, k), values[k])

\* A request the generator is documented for: end exceeds start, and a
\* given firstDelta is a positive step shorter than the whole span.
WellFormed(f) ==
    /\ QLess(f.start, f.end)
    /\ f.firstDelta # None =>
           /\ QLess(Zero, Val(f.firstDelta))
           /\ QLess(Val(f.firstDelta), QSub(f.end, f.start))

\* C3 (as claimed, and only for well-formed requests, so that no failure
\* rests on an odd firstDelta): with n >= 3 and end > start the returned
\* sequence is strictly increasing, in natural mode and in pinned mode.
Monotonicity ==
    \A c \in Callers :
        LET f == frame[c] IN
        (ReturnedSequence(c) /\ f.n >= 3 /\ WellFormed(f)) =>
            \A k \in 1 .. f.n - 1 :
                QLess(f.outcome.values[k], f.outcome.values[k + 1])

\* C4 (as claimed, and only for well-formed requests): every returned
\* sequence has increasing absolute steps:
\* sequence[i] - sequence[i-1] > sequence[i-1] - sequence[i-2], i in 2..n-1.
IncreasingAbsoluteSteps ==
    \A c \in Callers :
        LET f == frame[c] IN
        (ReturnedSequence(c) /\ f.n >= 3 /\ WellFormed(f)) =>
            \A k \in 2 .. f.n - 1 :
                QLess(AbsoluteStep(f.outcome.values, k - 1),
                      AbsoluteStep(f.outcome.values, k))

\* C5 (as claimed, and only for well-formed requests): every returned
\* sequence has decreasing relative steps:
\* (s[i]-s[i-1])/s[i-1] < (s[i-1]-s[i-2])/s[i-2] for i in 2..n-1 wherever
\* s[i-1] and s[i-2] are not zero.
DecreasingRelativeSteps ==
    \A c \in Callers :
        LET f == frame[c] IN
        (ReturnedSequence(c) /\ f.n >= 3 /\ WellFormed(f)) =>
            \A k \in 2 .. f.n - 1 :
                (f.outcome.values[k] # Zero /\ f.outcome.values[k - 1] # Zero)
                    => QLess(RelativeStep(f.outcome.values, k),
                             RelativeStep(f.outcome.values, k - 1))

\* The remembered earlier invocation, when there is one.
Earlier == Val(prior)

\* C6: a call with ith = k in 0..n-1 returns (value, delta) where value is
\* element k of the sequence the same call returns without ith, and delta
\* is element k minus element k-1 of that sequence, or 0 when k = 0.
IndexQueryEquivalence ==
    \A c \in Callers :
        LET f == frame[c]
            k == Val(f.ith)
        IN  (/\ f.pc = "done" /\ f.n >= 3
             /\ f.ith # None /\ k >= 0 /\ k < f.n
             /\ prior # None
             /\ Earlier.request = [RequestOf(f) EXCEPT !.ith = None]) =>
                /\ Earlier.outcome.kind = "sequence"
                /\ f.outcome.kind = "pair"
                /\ f.outcome.values[1] = Earlier.outcome.values[k + 1]
                /\ f.outcome.values[2] =
                       IF k = 0
                       THEN Zero
                       ELSE Sub(Earlier.outcome.values[k + 1],
                                Earlier.outcome.values[k])

\* C6 witness: after a call that returned the whole sequence, a call with
\* the same n, start, firstDelta and end and ith = 0 returned its pair.
IndexQueryEquivalenceWitness ==
    \E c \in Callers :
        LET f == frame[c] IN
        /\ f.pc = "done" /\ f.n >= 3
        /\ f.ith = Some(0)
        /\ f.start # f.end
        /\ prior # None
        /\ Earlier.request = [RequestOf(f) EXCEPT !.ith = None]
        /\ f.outcome.kind = "pair"

\* C7: every n < 3 fails with the invalid-length error, whatever the other
\* arguments, and returns nothing; no n >= 3 raises that error.
InvalidLengthIffBelowThree ==
    \A c \in Callers :
        LET f == frame[c] IN
        /\ f.outcome.error = "InvalidLength" => f.n < 3
        /\ (f.pc = "done" /\ f.n < 3) =>
               /\ f.outcome.kind = "ValueError"
               /\ f.outcome.error = "InvalidLength"
               /\ f.outcome.values = <<>>

\* C7 witness: a call with n = 2, in pinned mode and with an ith that is
\* itself out of range, ended in the invalid-length error.
InvalidLengthWitness ==
    \E c \in Callers :
        LET f == frame[c] IN
        /\ f.pc = "done" /\ f.n = 2
        /\ f.firstDelta # None
        /\ f.ith = Some(-1)
        /\ f.outcome = RaiseInvalidLength

\* C8: with n >= 3 and ith given, the call fails with the index error if
\* and only if ith < 0 or ith >= n; otherwise it returns a pair.
IndexErrorIffOutOfRange ==
    \A c \in Callers :
        LET f == frame[c]
            k == Val(f.ith)
        IN  (f.pc = "done" /\ f.n >= 3 /\ f.ith # None) =>
                IF k < 0 \/ k >= f.n
                THEN f.outcome = RaiseIndexOutOfRange(k, f.n)
                ELSE f.outcome.kind = "pair"

\* C8 witness: a call with n >= 3 and ith = -1 ended in the index error.
IndexErrorWitness ==
    \E c \in Callers :
        LET f == frame[c] IN
        /\ f.pc = "done" /\ f.n >= 3
        /\ f.ith = Some(-1)
        /\ f.outcome.error = "IndexOutOfRange"

\* C9 (as claimed): whenever a call ends in one of the two errors, no
\* element has been computed and no boundary value re-asserted.
ErrorsBeforeComputation ==
    \A c \in Callers :
        LET f == frame[c] IN
        (f.pc = "done" /\ f.outcome.kind = "ValueError") =>
            /\ f.sequence = <<>>
            /\ f.i = 0
            /\ ~f.reasserted

\* C9 (amended): the invalid-length error is raised before any element is
\* computed; the index error is raised after all n elements have been
\* computed and the boundary values re-asserted, and nothing is returned.
ErrorOrder ==
    \A c \in Callers :
        LET f == frame[c] IN
        (f.pc = "done" /\ f.outcome.kind = "ValueError") =>
            /\ f.outcome.values = <<>>
            /\ f.outcome.error = "InvalidLength" =>
                   f.sequence = <<>> /\ f.i = 0 /\ ~f.reasserted
            /\ f.outcome.error = "IndexOutOfRange" =>
                   Len(f.sequence) = f.n /\ f.i = f.n /\ f.reasserted

\* C9 witness: a call ended in the index error with its n elements
\* computed and re-asserted.
ErrorOrderWitness ==
    \E c \in Callers :
        LET f == frame[c] IN
        /\ f.pc = "done"
        /\ f.outcome.error = "IndexOutOfRange"
        /\ Len(f.sequence) = f.n
        /\ f.sequence[1] = f.start
        /\ f.reasserted

\* C10: an invocation with the arguments of an earlier invocation has the
\* same outcome (sequence, pair or error), whatever was invoked between.
SameArgumentsSameOutcome ==
    \A c \in Callers :
        LET f == frame[c] IN
        (f.pc = "done" /\ prior # None /\ Earlier.request = RequestOf(f)) =>
            f.outcome = Earlier.outcome

\* C10 witness: a call repeated the remembered call's arguments and
\* returned a sequence.
SameArgumentsWitness ==
    \E c \in Callers :
        LET f == frame[c] IN
        /\ f.pc = "done"
        /\ prior # None
        /\ Earlier.request = RequestOf(f)
        /\ f.outcome.kind = "sequence"

\* C11: under every interleaving of overlapping calls, each call returns
\* exactly what it returns when run alone.
NoInterference ==
    \A c \in Callers :
        frame[c].pc = "done" =>
            frame[c].outcome = GenerateSequence(RequestOf(frame[c]))

\* C11 witness: one call has returned its sequence while another call
\* with other arguments is in the middle of its loop.
NoInterferenceWitness ==
    \E c, d \in Callers :
        /\ c # d
        /\ ReturnedSequence(c)
        /\ frame[d].pc \in {"natural_loop", "pinned_loop"}
        /\ frame[d].i >= 1
        /\ frame[d].firstDelta # frame[c].firstDelta
        /\ frame[c].outcome = GenerateSequence(RequestOf(frame[c]))

\* The invocation of caller c has ended: it raised or it returned.
Ended(c) == frame[c].pc = "done"

\* C12: every invocation terminates, and when it ends it has either raised
\* one of the two validation errors or returned after exactly n iterations
\* of the element loop, one for each index 0 .. n-1.
Termination ==
    /\ \A c \in Callers : (frame[c].pc = "check_length") ~> Ended(c)
    /\ [](\A c \in Callers :
             Ended(c) =>
                 \/ /\ frame[c].outcome.kind = "ValueError"
                    /\ frame[c].outcome.error
                           \in {"InvalidLength", "IndexOutOfRange"}
                 \/ /\ frame[c].outcome.kind \in {"sequence", "pair"}
                    /\ frame[c].i = frame[c].n
                    /\ Len(frame[c].sequence) = frame[c].n)

\* C12 witness: a call of the largest length has returned after its n
\* iterations.
TerminationWitness ==
    \E c \in Callers :
        /\ Ended(c)
        /\ frame[c].outcome.kind \in {"sequence", "pair"}
        /\ frame[c].n = MaxN
        /\ frame[c].i = MaxN
        /\ Len(frame[c].sequence) = MaxN

\* C13: an ended call has exactly one outcome: an error, and then neither
\* a sequence nor a pair reaches the caller; or the full sequence, and then
\* ith was absent and nothing was raised; or a (value, delta) pair, and
\* then ith was given and nothing was raised.
ExactlyOneOutcome ==
    \A c \in Callers :
        Ended(c) =>
            LET f == frame[c]
                o == f.outcome
            IN  \/ /\ o.kind = "ValueError"
                   /\ o.error \in {"InvalidLength", "IndexOutOfRange"}
                   /\ o.values = <<>>
                \/ /\ o.kind = "sequence"
                   /\ o.error = ""
                   /\ f.ith = None
                   /\ Len(o.values) = f.n
                \/ /\ o.kind = "pair"
                   /\ o.error = ""
                   /\ f.ith # None
                   /\ Len(o.values) = 2

\* C13 witness: a call with an index out of range has ended in the error
\* after its whole sequence was computed, and the caller received none of
\* it.
ExactlyOneOutcomeWitness ==
    \E c \in Callers :
        /\ Ended(c)
        /\ frame[c].outcome.error = "IndexOutOfRange"
        /\ Len(frame[c].sequence) = frame[c].n
        /\ frame[c].outcome.values = <<>>

\* start + (end - start) * (i/(n-1))^2 as a rational number.
EaseIn(n, start, end, i) ==
    QAdd(start, QMul(QSub(end, start), Rat(i * i, (n - 1) * (n - 1))))

\* The natural-mode loop of caller c has appended its n elements and the
\* boundary re-assertion is about to run.
NaturalLoopOver(c) ==
    /\ frame[c].pc = "natural_loop"
    /\ ~LoopContinues(frame[c].n, frame[c].i)

\* C14: in exact arithmetic a natural-mode call (n >= 3, firstDelta absent)
\* returns the elements start + (end - start) * (i/(n-1))^2, i = 0 .. n-1,
\* and the boundary re-assertion changes none of the elements the loop
\* produced.
NaturalModeFormula ==
    \A c \in Callers :
        LET f == frame[c] IN
        /\ (ReturnedSequence(c) /\ f.firstDelta = None) =>
               /\ f.n >= 3
               /\ Len(f.outcome.values) = f.n
               /\ \A i \in 0 .. f.n - 1 :
                      f.outcome.values[i + 1] = EaseIn(f.n, f.start, f.end, i)
        /\ NaturalLoopOver(c) =>
               Reasserted(f.sequence, f.n, f.start, f.firstDelta, f.end)
                   = f.sequence

\* C14 witness: the call n = 7, start = 0, end = 0.7 has returned, and its
\* element 3 is 0.175.
NaturalModeFormulaWitness ==
    \E c \in Callers :
        /\ ReturnedSequence(c)
        /\ frame[c].firstDelta = None
        /\ frame[c].n = 7
        /\ frame[c].start = Zero
        /\ frame[c].end = Rat(7, 10)
        /\ frame[c].outcome.values[4] = Rat(7, 40)

\* a = (end - start - firstDelta*(n-1)) / ((n-1)*(n-2)) as a rational number.
QuadraticA(n, start, firstDelta, end) ==
    QDiv(QSub(QSub(end, start), QMul(firstDelta, FromInt(n - 1))),
         FromInt((n - 1) * (n - 2)))

\* a*i^2 + b*i + start with b = firstDelta - a, as a rational number.
Quadratic(n, start, firstDelta, end, i) ==
    LET a == QuadraticA(n, start, firstDelta, end)
        b == QSub(firstDelta, a)
    IN  QAdd(QAdd(QMul(a, FromInt(i * i)), QMul(b, FromInt(i))), start)

\* The pinned-mode loop of caller c has appended its n elements and the
\* boundary re-assertion is about to run.
PinnedLoopOver(c) ==
    /\ frame[c].pc = "pinned_loop"
    /\ ~LoopContinues(frame[c].n, frame[c].i)

\* C15: in exact arithmetic a pinned-mode call (n >= 3, firstDelta given)
\* returns the elements a*i^2 + b*i + start, i = 0 .. n-1, with
\* a = (end - start - firstDelta*(n-1)) / ((n-1)*(n-2)) and
\* b = firstDelta - a; the fitted elements already are start at 0,
\* start + firstDelta at 1 and end at n-1, so the boundary re-assertion
\* changes none of them.
PinnedModeFormula ==
    \A c \in Callers :
        LET f == frame[c] IN
        /\ (ReturnedSequence(c) /\ f.firstDelta # None) =>
               /\ f.n >= 3
               /\ Len(f.outcome.values) = f.n
               /\ \A i \in 0 .. f.n - 1 :
                      f.outcome.values[i + 1] =
                          Quadratic(f.n, f.start, Val(f.firstDelta), f.end, i)
        /\ PinnedLoopOver(c) =>
               /\ f.sequence[1] = f.start
               /\ f.sequence[2] = QAdd(f.start, Val(f.firstDelta))
               /\ f.sequence[f.n] = f.end
               /\ Reasserted(f.sequence, f.n, f.start, f.firstDelta, f.end)
                      = f.sequence

\* C15 witness: a pinned call of length MaxN has returned, with a
\* non-zero quadratic coefficient.
PinnedModeFormulaWitness ==
    \E c \in Callers :
        /\ ReturnedSequence(c)
        /\ frame[c].firstDelta = Some(Rat(3, 8))
        /\ frame[c].n = MaxN
        /\ frame[c].start = Rat(1, 16)
        /\ frame[c].end = Rat(7, 4)
        /\ frame[c].a # Zero
        /\ frame[c].outcome.values[3] =
               Quadratic(MaxN, Rat(1, 16), Rat(3, 8), Rat(7, 4), 2)

\* A completed natural-mode call of caller c with n >= 3 and end > start
\* that returned the whole sequence.
ReturnedNatural(c) ==
    /\ ReturnedSequence(c)
    /\ frame[c].firstDelta = None
    /\ frame[c].n >= 3
    /\ QLess(frame[c].start, frame[c].end)

\* Every step of the sequence is positive and exceeds the step before it.
StepsGrow(values, n) ==
    /\ \A k \in 1 .. n - 1 : QLess(Zero, AbsoluteStep(values, k))
    /\ \A k \in 2 .. n - 1 :
           QLess(AbsoluteStep(values, k - 1), AbsoluteStep(values, k))

NaturalRelativeStepsShrink ==
    \A c \in Callers :
        ReturnedNatural(c) =>
            LET s == frame[c].outcome.values IN
            \A k \in 2 .. frame[c].n - 1 :
                (s[k] # Zero /\ s[k - 1] # Zero)
                    => QLess(RelativeStep(s, k), RelativeStep(s, k - 1))

\* Caller c is at the computation of denominator = (n-1)*(n-2), line 63.
AtDenominator(c) == frame[c].pc = "fit"

\* C18: whenever a call reaches the computation of the denominator, n >= 3
\* and the denominator is not zero: the branch a = 0, b = firstDelta is
\* never taken and the division defining a never divides by zero.
FallbackUnreachable ==
    \A c \in Callers :
        AtDenominator(c) =>
            /\ frame[c].n >= 3
            /\ Denominator(frame[c].n) # 0

\* C18 witness: a pinned-mode call of the smallest accepted length is at
\* the computation of the denominator, which is 2.
FallbackUnreachableWitness ==
    \E c \in Callers :
        /\ AtDenominator(c)
        /\ frame[c].n = 3
        /\ frame[c].firstDelta # None
        /\ Denominator(frame[c].n) = 2

Ranked ==
    /\ tool.name = "run_batch_optimization"
    /\ tool.pc = "done"
    /\ Succeeded(tool.response)
    /\ tool.response.results # <<>>

\* The i-th largest totalReturn of the results, i = 1 for the maximum.
NthLargestReturn(results, i) ==
    CHOOSE v \in {results[k].totalReturn : k \in 1 .. Len(results)} :
        /\ Cardinality({k \in 1 .. Len(results) :
                           QLess(v, results[k].totalReturn)}) < i
        /\ Cardinality({k \in 1 .. Len(results) :
                           ~QLess(results[k].totalReturn, v)}) >= i

\* C20: run_batch_optimization posts |grid_spacing| * |profit_target| *
\* |enable_momentum_sell| combinations, with one momentum value when the
\* list is empty or absent; on a successful answer with results,
\* best_configuration is that of a result of maximal totalReturn,
\* top_5_configurations has min(5, number of results) entries ranked
\* 1, 2, ... in non-increasing order of totalReturn, and its first entry is
\* the best configuration.
RankedByTotalReturn ==
    tool.name = "run_batch_optimization" =>
        LET grid == tool.params.parameter_grid
            momentums ==
                IF grid.enable_momentum_sell = None THEN 1
                ELSE IF Len(Val(grid.enable_momentum_sell)) = 0 THEN 1
                ELSE Len(Val(grid.enable_momentum_sell))
        IN  /\ tool.pc \in {"respond", "done"} =>
                   /\ Len(posted) = 1
                   /\ posted[1].path = "/api/backtest/batch"
                   /\ Len(posted[1].json.parameterCombinations) =
                          Len(grid.grid_spacing) * Len(grid.profit_target)
                              * momentums
            /\ Ranked =>
                   LET results == tool.response.results
                       best == tool.outcome.body.best_configuration
                       top == tool.outcome.body.top_5_configurations
                   IN  /\ tool.outcome.kind = "result"
                       /\ \E j \in 1 .. Len(results) :
                              /\ \A k \in 1 .. Len(results) :
                                     ~QLess(results[j].totalReturn,
                                            results[k].totalReturn)
                              /\ best = BestConfiguration(results[j])
                       /\ Len(top) =
                              (IF Len(results) < 5 THEN Len(results) ELSE 5)
                       /\ \A i \in 1 .. Len(top) :
                              /\ top[i].rank = i
                              /\ top[i].total_return_pct =
                                     Round2(NthLargestReturn(results, i))
                       /\ top[1].grid_spacing = best.grid_spacing
                       /\ top[1].profit_target = best.profit_target
                       /\ top[1].total_return_pct = best.total_return_pct

\* C20 witness: six results, the two largest equal and not in front, have
\* been ranked into five entries for a request of 2 * 1 * 2 combinations.
RankedByTotalReturnWitness ==
    /\ Ranked
    /\ Len(tool.response.results) = 6
    /\ tool.response.results[1].totalReturn = Rat(-3, 2)
    /\ tool.response.results[2].numTrades = 9
    /\ tool.response.results[3].numTrades = 7
    /\ Len(tool.outcome.body.top_5_configurations) = 5
    /\ tool.outcome.body.best_configuration.num_trades = 9
    /\ Len(posted[1].json.parameterCombinations) = 4

\* The tools that call handle_backend_error on the answer to their request.
ErrorHandlingTools ==
    {"run_dca_backtest", "run_portfolio_backtest", "run_batch_optimization",
     "calculate_beta", "compare_strategies", "get_dca_suitability_score",
     "list_stocks", "get_stock_info"}

\* The tool has ended on the answer it got to its last request.
EndedOnAnswer ==
    /\ tool.name \in ErrorHandlingTools
    /\ tool.pc = "done"
    /\ posted # <<>>
    /\ tool.response.kind = "response"

\* C21: whenever one of the eight tools that call handle_backend_error gets
\* an answer of status s >= 400, it fails with a BackendAPIError of
\* status_code s; on an answer of status below 400 handle_backend_error
\* raises nothing, so a successful answer is never turned into a
\* BackendAPIError.
BackendStatusPropagated ==
    EndedOnAnswer =>
        /\ tool.response.status >= 400 =>
               /\ tool.outcome.kind = "BackendAPIError"
               /\ tool.outcome.status = tool.response.status
        /\ tool.response.status < 400 =>
               /\ ~BackendRefused(tool.response)
               /\ tool.response.success =>
                      tool.outcome.kind # "BackendAPIError"

\* calculate_beta has returned its result for the beta of the answer.
BetaReturned ==
    /\ tool.name = "calculate_beta"
    /\ tool.pc = "done"
    /\ tool.outcome.kind = "result"

\* C22: calculate_beta labels a beta 'Market volatility' whenever
\* 0.95 <= beta <= 1.05, 'Low volatility (< 1)' only below that band and
\* 'High volatility (> 1)' only above it.
BetaBandLabelled ==
    BetaReturned =>
        LET beta == tool.response.results
            label == tool.outcome.body.interpretation
            below == QLess(beta, Rat(95, 100))
            above == QLess(Rat(105, 100), beta)
        IN  /\ (~below /\ ~above) => label = "Market volatility (~ 1)"
            /\ label = "Low volatility (< 1)" => below
            /\ label = "High volatility (> 1)" => above

\* health_check has ended.
HealthChecked ==
    /\ tool.name = "health_check"
    /\ tool.pc = "done"

SecondTestReturned ==
    /\ script.test = 2
    /\ script.pc \notin {"header", "call", "wait", "failed"}

\* C24: run as a script the module completes both demonstrations without
\* error: no call of the script fails, and the call of Test 2 returns seven
\* elements from 0.0 to 0.7 with 0.1 as the second, whose increments are
\* then printed.
ScriptCompletes ==
    /\ script.pc # "failed"
    /\ SecondTestReturned =>
           /\ Len(script.seq) = 7
           /\ script.seq[1] = Zero
           /\ script.seq[2] = Rnd(Rat(1, 10))
           /\ script.seq[7] = Rnd(Rat(7, 10))
    /\ (script.test = 2 /\ script.pc = "done") =>
           Len(script.abs_increments) = 6

\* Caller c has returned the sequence of a natural-mode call and the
\* remembered invocation returned the sequence of the pinned-mode call with
\* the same n, start and end and firstDelta = (end - start) / (n - 1)^2.
NaturalAndItsPinnedCall(c) ==
    /\ ReturnedSequence(c)
    /\ frame[c].firstDelta = None
    /\ prior # None
    /\ Val(prior).request = PinnedAtNaturalDelta(RequestOf(frame[c]))
    /\ Val(prior).outcome.kind = "sequence"

\* C25: in exact arithmetic, for n >= 3 the natural-mode call and the
\* pinned-mode call with firstDelta = (end - start) / (n - 1)^2 return
\* element-wise equal sequences, and the fit of that pinned call has b = 0
\* and a = (end - start) / (n - 1)^2.
NaturalIsPinnedSpecialCase ==
    \A c \in Callers :
        LET f == frame[c] IN
        /\ NaturalAndItsPinnedCall(c) =>
               /\ Len(f.outcome.values) = f.n
               /\ Len(Val(prior).outcome.values) = f.n
               /\ \A k \in 1 .. f.n :
                      f.outcome.values[k] = Val(prior).outcome.values[k]
        /\ (/\ f.pc \in {"pinned_loop", "query", "done"}
            /\ f.n >= 3
            /\ f.firstDelta = Some(NaturalDelta(f.n, f.start, f.end))) =>
               /\ f.b = Zero
               /\ f.a = NaturalDelta(f.n, f.start, f.end)

\* The two calls have returned for the longest sequence, over a span that
\* is not level, and the sequences are not constant.
NaturalIsPinnedSpecialCaseWitness ==
    \E c \in Callers :
        /\ NaturalAndItsPinnedCall(c)
        /\ frame[c].n = MaxN
        /\ frame[c].start = Rat(1, 16)
        /\ frame[c].end = Rat(7, 4)
        /\ frame[c].outcome.values[2] # frame[c].outcome.values[1]
        /\ Val(prior).outcome.values[MaxN] = Rat(7, 4)

\* Caller c has returned the sequence of a pinned-mode call with n >= 3 and
\* end > start.
ReturnedRisingPinned(c) ==
    /\ ReturnedSequence(c)
    /\ frame[c].n >= 3
    /\ frame[c].firstDelta # None
    /\ QLess(frame[c].start, frame[c].end)

\* The sequence is strictly increasing exactly when firstDelta is strictly
\* between 0 and 2 * (end - start) / (n - 1).
IncreasingIffInRange(f) ==
    (\A k \in 1 .. f.n - 1 :
         QLess(f.outcome.values[k], f.outcome.values[k + 1]))
        <=> (/\ QLess(Zero, Val(f.firstDelta))
             /\ QLess(Val(f.firstDelta), UpperDelta(f.n, f.start, f.end)))

=============================================================================
